---- MODULE Spec2Model ----
(***************************************************************************)
(* Cost Planner v3: the tier-based cost calculation engine of              *)
(* products/cost_planner_v3 (constants.py, tier_assignment.py, add_ons.py, *)
(* ranges.py, calculator.py).                                              *)
(*                                                                         *)
(* Every function of the engine is a module-level Python function that a   *)
(* caller can invoke.  The state machine is one caller: from "idle" it     *)
(* calls one function with arguments drawn from bounded sets, the function *)
(* runs to its return or to the exception it raises, and the caller then   *)
(* drops the outcome and is idle again.                                    *)
(*                                                                         *)
(* Money is kept in cents as exact rationals [n, d]; round(x, 2) is the    *)
(* only place a value is cut to whole cents.                               *)
(***************************************************************************)
EXTENDS Integers, Sequences, FiniteSets, TLC

VARIABLES pc, fn, args, ret, record

vars == <<pc, fn, args, ret, record>>

(***************************************************************************)
(* Bounds of the model.                                                    *)
(***************************************************************************)
MaxFlags == 3
MaxBadls == 4
MaxIadls == 4
MaxBehaviors == 3
MaxChronic == 3
MaxRawBadls == 2

(***************************************************************************)
(* Python values.                                                          *)
(***************************************************************************)
None == "None"

EmptyDict == [k \in {} |-> 0]

\* d.get(k, default)
Get(d, k, default) == IF k \in DOMAIN d THEN d[k] ELSE default

\* a dict literal entry that is written only when present
Entry(k, present, v) == IF present THEN k :> v ELSE EmptyDict

\* sum() over a list of booleans
RECURSIVE SumBool(_)
SumBool(s) ==
    IF s = <<>> THEN 0
    ELSE (IF Head(s) THEN 1 ELSE 0) + SumBool(Tail(s))

\* any() over a list of booleans
AnyTrue(s) == \E i \in 1..Len(s) : s[i]

\* the outcome of a call: a returned value or a raised exception
Return(v) == [status |-> "ok", value |-> v]
Raise(e, message) == [status |-> e, value |-> message]

TierIds == <<"tier_0", "tier_1", "tier_2", "tier_3", "tier_4">>

(***************************************************************************)
(* Floating-point dollars, modelled as exact rationals of cents.           *)
(***************************************************************************)
Abs(x) == IF x < 0 THEN 0 - x ELSE x

RECURSIVE GCD(_, _)
GCD(a, b) == IF b = 0 THEN a ELSE GCD(b, a % b)

\* the number n/d (d > 0) in lowest terms
Rat(n, d) ==
    LET g == GCD(Abs(n), d)
    IN  IF g = 0 THEN [n |-> 0, d |-> 1] ELSE [n |-> n \div g, d |-> d \div g]

RAdd(x, y) == Rat(x.n * y.d + y.n * x.d, x.d * y.d)
RSub(x, y) == Rat(x.n * y.d - y.n * x.d, x.d * y.d)
RMul(x, y) ==
    LET g1 == GCD(Abs(x.n), y.d)
        g2 == GCD(Abs(y.n), x.d)
    IN  Rat((x.n \div g1) * (y.n \div g2), (x.d \div g2) * (y.d \div g1))
\* x / y for y > 0
RDiv(x, y) == RMul(x, [n |-> y.d, d |-> y.n])
RLe(x, y) == x.n * y.d <= y.n * x.d
RLt(x, y) == x.n * y.d < y.n * x.d
RMin(x, y) == IF RLe(x, y) THEN x ELSE y

\* a literal of the source: whole dollars, and a decimal fraction
Dollars(x) == Rat(x * 100, 1)
Cents(c) == Rat(c, 1)
Zero == Rat(0, 1)
One == Rat(1, 1)

\* round(x, 2): the nearest whole cent, a half going to the even cent
Round2(x) ==
    LET q == x.n \div x.d
        r == x.n - q * x.d
    IN  IF 2 * r < x.d THEN q
        ELSE IF 2 * r > x.d THEN q + 1
        ELSE IF q % 2 = 0 THEN q ELSE q + 1

\* sum() over the "amount" of a list of add-ons
RECURSIVE SumAmounts(_)
SumAmounts(s) ==
    IF s = <<>> THEN Zero ELSE RAdd(Head(s).amount, SumAmounts(Tail(s)))

\* the elements of a list
Elements(s) == { s[i] : i \in 1..Len(s) }

\* [x for x in s if x != v]
RECURSIVE Without(_, _)
Without(s, v) ==
    IF s = <<>> THEN <<>>
    ELSE IF Head(s) = v THEN Without(Tail(s), v)
    ELSE <<Head(s)>> \o Without(Tail(s), v)

(***************************************************************************)
(* constants.py                                                            *)
(***************************************************************************)
\* the cost entries of each care type (the citation strings are left out)
BASE_COSTS_2024 == [
    assisted_living |-> [monthly |-> 5900, annual |-> 70800, derived |-> FALSE],
    memory_care |-> [monthly |-> 7400, derived |-> TRUE],
    memory_care_high_acuity |-> [monthly |-> 9400, derived |-> TRUE],
    in_home_care |-> [hourly |-> 34, derived |-> FALSE],
    homemaker_services |-> [hourly |-> 33, derived |-> FALSE],
    home_carry |-> [monthly |-> 4500, derived |-> FALSE] ]

AL_TIER_INCREMENTS == [
    tier_0 |-> [increment |-> 0, label |-> "Standard Care",
                description |-> "Minimal support, independent with most ADLs"],
    tier_1 |-> [increment |-> 600, label |-> "Light Assistance",
                description |-> "Medication management OR mild ADL help"],
    tier_2 |-> [increment |-> 1200, label |-> "Moderate Assistance",
                description |-> "Mobility assistance OR moderate ADL help"],
    tier_3 |-> [increment |-> 2000, label |-> "Enhanced Support",
                description |-> "Memory support OR behavioral concerns OR extensive ADLs"],
    tier_4 |-> [increment |-> 3000, label |-> "Maximum Support",
                description |-> "Multiple high-intensity needs"] ]

MC_TIER_INCREMENTS == [
    tier_0 |-> [increment |-> 0, label |-> "Standard Memory Care",
                description |-> "Base secured memory care environment"],
    tier_1 |-> [increment |-> 400, label |-> "Light ADL Support",
                description |-> "Mild ADL or mobility support"],
    tier_2 |-> [increment |-> 900, label |-> "Moderate ADL Support",
                description |-> "Moderate ADLs or mobility needs"],
    tier_3 |-> [increment |-> 1500, label |-> "Enhanced Behavioral Support",
                description |-> "Behavioral concerns or complex ADLs"],
    tier_4 |-> [increment |-> 2200, label |-> "High-Acuity Care",
                description |-> "Severe behaviors or hands-on care"] ]

MAX_ADDON_PCT == Rat(15, 100)

MAX_ADDON_ABSOLUTE == 800

\* ADDON_AMOUNTS with fractions that add up to the whole cap
ADDON_AMOUNTS_filling_cap == [
    fall_monitoring |-> Rat(50, 100),
    chronic_complexity |-> Rat(25, 100),
    incontinence_care |-> Rat(25, 100) ]

\* ADDON_AMOUNTS with the chronic and the incontinence fractions exchanged
ADDON_AMOUNTS_swapped == [
    fall_monitoring |-> Rat(50, 100),
    chronic_complexity |-> Rat(3125, 10000),
    incontinence_care |-> Rat(375, 1000) ]

ADDON_AMOUNTS == [
    fall_monitoring |-> Rat(50, 100),
    chronic_complexity |-> Rat(375, 1000),
    incontinence_care |-> Rat(3125, 10000) ]

CONFIDENCE_RANGES_swapped == [
    high |-> Rat(7, 100),
    medium |-> Rat(20, 100),
    low |-> Rat(12, 100) ]

CONFIDENCE_RANGES == [
    high |-> Rat(7, 100),
    medium |-> Rat(12, 100),
    low |-> Rat(20, 100) ]

get_base_cost(care_type, cost_type) ==
    IF care_type \notin DOMAIN BASE_COSTS_2024
    THEN Raise("ValueError", "Unknown care type")
    ELSE LET cost_data == BASE_COSTS_2024[care_type]
         IN  IF cost_type \notin DOMAIN cost_data
             THEN Raise("ValueError", "Care type does not have cost type")
             ELSE Return(Dollars(cost_data[cost_type]))

get_tier_increment(care_type, tier, regional_multiplier) ==
    IF care_type \notin {"assisted_living", "memory_care", "memory_care_high_acuity"}
    THEN Raise("ValueError", "Tier increments not defined for care type")
    ELSE LET table == IF care_type = "assisted_living"
                      THEN AL_TIER_INCREMENTS ELSE MC_TIER_INCREMENTS
         IN  IF tier \notin DOMAIN table
             THEN Raise("ValueError", "Unknown tier")
             ELSE Return(RMul(Dollars(table[tier].increment), regional_multiplier))

get_tier_config(care_type, tier) ==
    IF care_type = "assisted_living"
    THEN Get(AL_TIER_INCREMENTS, tier, EmptyDict)
    ELSE IF care_type \in {"memory_care", "memory_care_high_acuity"}
    THEN Get(MC_TIER_INCREMENTS, tier, EmptyDict)
    ELSE EmptyDict

(***************************************************************************)
(* tier_assignment.py                                                      *)
(***************************************************************************)
assign_assisted_living_tier_three(gcp_flags, gcp_answers) ==
    LET badls_count == Get(gcp_answers, "badls_count", 0)
        iadls_count == Get(gcp_answers, "iadls_count", 0)
        tier_4_conditions == <<
            "severe_cognitive_risk" \in gcp_flags,
            "high_mobility_dependence" \in gcp_flags,
            "behavioral_concerns" \in gcp_flags,
            badls_count >= 3,
            "continuous_supervision" \in gcp_flags >>
        meds == Get(gcp_answers, "meds_complexity", None)
    IN  IF SumBool(tier_4_conditions) >= 3 THEN "tier_4"
        ELSE IF AnyTrue(<<
            "severe_cognitive_risk" \in gcp_flags,
            "moderate_cognitive_decline" \in gcp_flags /\ badls_count >= 2,
            "behavioral_concerns" \in gcp_flags,
            badls_count >= 3,
            "high_dependence" \in gcp_flags >>) THEN "tier_3"
        ELSE IF AnyTrue(<<
            "high_mobility_dependence" \in gcp_flags,
            "transfer_assistance_1person" \in gcp_flags,
            badls_count >= 2,
            "incontinence_management" \in gcp_flags,
            "falls_multiple" \in gcp_flags >>) THEN "tier_2"
        ELSE IF AnyTrue(<<
            meds \in {"moderate", "complex"},
            badls_count = 1,
            iadls_count >= 4,
            "mild_cognitive_decline" \in gcp_flags >>) THEN "tier_1"
        ELSE "tier_0"

assign_assisted_living_tier_eq3(gcp_flags, gcp_answers) ==
    LET badls_count == Get(gcp_answers, "badls_count", 0)
        iadls_count == Get(gcp_answers, "iadls_count", 0)
        tier_4_conditions == <<
            "severe_cognitive_risk" \in gcp_flags,
            "high_mobility_dependence" \in gcp_flags,
            "behavioral_concerns" \in gcp_flags,
            badls_count >= 3,
            "continuous_supervision" \in gcp_flags >>
        meds == Get(gcp_answers, "meds_complexity", None)
    IN  IF SumBool(tier_4_conditions) >= 2 THEN "tier_4"
        ELSE IF AnyTrue(<<
            "severe_cognitive_risk" \in gcp_flags,
            "moderate_cognitive_decline" \in gcp_flags /\ badls_count >= 2,
            "behavioral_concerns" \in gcp_flags,
            badls_count = 3,
            "high_dependence" \in gcp_flags >>) THEN "tier_3"
        ELSE IF AnyTrue(<<
            "high_mobility_dependence" \in gcp_flags,
            "transfer_assistance_1person" \in gcp_flags,
            badls_count >= 2,
            "incontinence_management" \in gcp_flags,
            "falls_multiple" \in gcp_flags >>) THEN "tier_2"
        ELSE IF AnyTrue(<<
            meds \in {"moderate", "complex"},
            badls_count = 1,
            iadls_count >= 4,
            "mild_cognitive_decline" \in gcp_flags >>) THEN "tier_1"
        ELSE "tier_0"

assign_assisted_living_tier(gcp_flags, gcp_answers) ==
    LET badls_count == Get(gcp_answers, "badls_count", 0)
        iadls_count == Get(gcp_answers, "iadls_count", 0)
        tier_4_conditions == <<
            "severe_cognitive_risk" \in gcp_flags,
            "high_mobility_dependence" \in gcp_flags,
            "behavioral_concerns" \in gcp_flags,
            badls_count >= 3,
            "continuous_supervision" \in gcp_flags >>
        meds == Get(gcp_answers, "meds_complexity", None)
    IN  IF SumBool(tier_4_conditions) >= 2 THEN "tier_4"
        ELSE IF AnyTrue(<<
            "severe_cognitive_risk" \in gcp_flags,
            "moderate_cognitive_decline" \in gcp_flags /\ badls_count >= 2,
            "behavioral_concerns" \in gcp_flags,
            badls_count >= 3,
            "high_dependence" \in gcp_flags >>) THEN "tier_3"
        ELSE IF AnyTrue(<<
            "high_mobility_dependence" \in gcp_flags,
            "transfer_assistance_1person" \in gcp_flags,
            badls_count >= 2,
            "incontinence_management" \in gcp_flags,
            "falls_multiple" \in gcp_flags >>) THEN "tier_2"
        ELSE IF AnyTrue(<<
            meds \in {"moderate", "complex"},
            badls_count = 1,
            iadls_count >= 4,
            "mild_cognitive_decline" \in gcp_flags >>) THEN "tier_1"
        ELSE "tier_0"

assign_memory_care_tier_any_badl(gcp_flags, gcp_answers) ==
    LET badls_count == Get(gcp_answers, "badls_count", 0)
        behaviors_count == Get(gcp_answers, "behaviors_count", 0)
    IN  IF AnyTrue(<<
            "behavioral_concerns" \in gcp_flags /\ behaviors_count >= 3,
            "continuous_supervision" \in gcp_flags /\ "high_dependence" \in gcp_flags,
            badls_count >= 4,
            "transfer_lift_required" \in gcp_flags >>) THEN "tier_4"
        ELSE IF AnyTrue(<<
            "behavioral_concerns" \in gcp_flags,
            badls_count >= 3,
            "transfer_assistance_2person" \in gcp_flags,
            "high_dependence" \in gcp_flags >>) THEN "tier_3"
        ELSE IF AnyTrue(<<
            badls_count >= 2,
            "high_mobility_dependence" \in gcp_flags,
            "incontinence_management" \in gcp_flags >>) THEN "tier_2"
        ELSE IF AnyTrue(<<
            badls_count >= 1,
            "transfer_assistance_1person" \in gcp_flags >>) THEN "tier_1"
        ELSE "tier_0"

\* assign_memory_care_tier with the cascade walked from the lowest tier up
assign_memory_care_tier_lowest_first(gcp_flags, gcp_answers) ==
    LET badls_count == Get(gcp_answers, "badls_count", 0)
        behaviors_count == Get(gcp_answers, "behaviors_count", 0)
    IN  IF AnyTrue(<<
            badls_count = 1,
            "transfer_assistance_1person" \in gcp_flags,
            "moderate_mobility" \in gcp_flags >>) THEN "tier_1"
        ELSE IF AnyTrue(<<
            badls_count >= 2,
            "high_mobility_dependence" \in gcp_flags,
            "incontinence_management" \in gcp_flags >>) THEN "tier_2"
        ELSE IF AnyTrue(<<
            "behavioral_concerns" \in gcp_flags,
            badls_count >= 3,
            "transfer_assistance_2person" \in gcp_flags,
            "high_dependence" \in gcp_flags >>) THEN "tier_3"
        ELSE IF AnyTrue(<<
            "behavioral_concerns" \in gcp_flags /\ behaviors_count >= 3,
            "continuous_supervision" \in gcp_flags /\ "high_dependence" \in gcp_flags,
            badls_count >= 4,
            "transfer_lift_required" \in gcp_flags >>) THEN "tier_4"
        ELSE "tier_0"

assign_memory_care_tier(gcp_flags, gcp_answers) ==
    LET badls_count == Get(gcp_answers, "badls_count", 0)
        behaviors_count == Get(gcp_answers, "behaviors_count", 0)
    IN  IF AnyTrue(<<
            "behavioral_concerns" \in gcp_flags /\ behaviors_count >= 3,
            "continuous_supervision" \in gcp_flags /\ "high_dependence" \in gcp_flags,
            badls_count >= 4,
            "transfer_lift_required" \in gcp_flags >>) THEN "tier_4"
        ELSE IF AnyTrue(<<
            "behavioral_concerns" \in gcp_flags,
            badls_count >= 3,
            "transfer_assistance_2person" \in gcp_flags,
            "high_dependence" \in gcp_flags >>) THEN "tier_3"
        ELSE IF AnyTrue(<<
            badls_count >= 2,
            "high_mobility_dependence" \in gcp_flags,
            "incontinence_management" \in gcp_flags >>) THEN "tier_2"
        ELSE IF AnyTrue(<<
            badls_count = 1,
            "transfer_assistance_1person" \in gcp_flags,
            "moderate_mobility" \in gcp_flags >>) THEN "tier_1"
        ELSE "tier_0"

should_recommend_memory_care_instead_of_al(gcp_flags, gcp_answers) ==
    LET badls_count == Get(gcp_answers, "badls_count", 0)
        behaviors_count == Get(gcp_answers, "behaviors_count", 0)
    IN  IF "memory_care_dx" \in gcp_flags /\ AnyTrue(<<
            badls_count >= 2,
            "behavioral_concerns" \in gcp_flags,
            "continuous_supervision" \in gcp_flags >>) THEN TRUE
        ELSE IF "severe_cognitive_risk" \in gcp_flags /\ AnyTrue(<<
            "behavioral_concerns" \in gcp_flags,
            "continuous_supervision" \in gcp_flags,
            Get(gcp_answers, "safe_alone", None) = "no" >>) THEN TRUE
        ELSE IF behaviors_count >= 3 THEN TRUE
        ELSE FALSE

should_recommend_high_acuity_mc(gcp_flags, gcp_answers, mc_tier) ==
    LET behaviors_count == Get(gcp_answers, "behaviors_count", 0)
    IN  IF mc_tier = "tier_4" /\ AnyTrue(<<
            "transfer_lift_required" \in gcp_flags,
            Get(gcp_answers, "incontinence", None) = "complete",
            "continuous_supervision" \in gcp_flags /\ behaviors_count >= 2 >>)
        THEN TRUE
        ELSE FALSE

\* a call should_recommend_high_acuity_mc(*argv): the function has three
\* required positional parameters
invoke_should_recommend_high_acuity_mc(argv) ==
    IF Len(argv) # 3
    THEN Raise("TypeError", "missing or extra positional argument")
    ELSE Return(should_recommend_high_acuity_mc(argv[1], argv[2], argv[3]))

\* a raw answer value: a Python list, or a value of another type
PyList(items) == [islist |-> TRUE, items |-> items]
NotAList == [islist |-> FALSE, items |-> <<>>]

\* drop_none without the filter on the sentinel
drop_none_unfiltered(raw) == IF raw.islist THEN raw.items ELSE <<>>

\* [x for x in raw if x != "none"] if isinstance(raw, list) else []
drop_none(raw) == IF raw.islist THEN Without(raw.items, "none") ELSE <<>>

prepare_gcp_context(gcp_outcome) ==
    LET flags == Elements(Get(gcp_outcome, "flags", <<>>))
        answers == Get(gcp_outcome, "answers", EmptyDict)
        badls_list == drop_none(Get(answers, "badls", PyList(<<>>)))
        iadls_list == drop_none(Get(answers, "iadls", PyList(<<>>)))
        behaviors_list == drop_none(Get(answers, "behaviors", PyList(<<>>)))
        chronic_list == drop_none(Get(answers, "chronic_conditions", PyList(<<>>)))
        normalized == [
            badls_count |-> Len(badls_list),
            badls_list |-> badls_list,
            iadls_count |-> Len(iadls_list),
            iadls_list |-> iadls_list,
            behaviors_count |-> Len(behaviors_list),
            behaviors_list |-> behaviors_list,
            chronic_conditions |-> chronic_list,
            meds_complexity |-> Get(answers, "meds_complexity", None),
            incontinence |-> Get(answers, "incontinence", None),
            safe_alone |-> Get(answers, "safe_alone", None),
            transfers |-> Get(answers, "transfers", None),
            mobility |-> Get(answers, "mobility", None),
            memory_changes |-> Get(answers, "memory_changes", None),
            mood |-> Get(answers, "mood", None),
            falls |-> Get(answers, "falls", None) ]
    IN  [ flags |-> flags,
          answers |-> normalized,
          tier |-> Get(gcp_outcome, "tier", None),
          score |-> Get(gcp_outcome, "score", 0),
          support_band |-> Get(gcp_outcome, "support_band", "low"),
          hours_band |-> Get(gcp_outcome, "hours_band", "<1h") ]

\* the keys of the dict prepare_gcp_context returns, in insertion order:
\* what iterating over that dict yields
prepare_gcp_context_keys ==
    <<"flags", "answers", "tier", "score", "support_band", "hours_band">>

\* the caller's record after prepare_gcp_context has run on it, were the
\* counts stored into the answers of the record itself
prepare_gcp_context_record_in_place(gcp_outcome) ==
    IF "answers" \in DOMAIN gcp_outcome
    THEN [gcp_outcome EXCEPT !["answers"] =
            ("badls_count" :> prepare_gcp_context(gcp_outcome)["answers"]["badls_count"])
            @@ @]
    ELSE gcp_outcome

\* the caller's record after prepare_gcp_context has run on it: the record and
\* its answers are read with .get only, the filtered lists are new lists bound
\* to local names, and the counts go into the new dict "normalized"
prepare_gcp_context_record(gcp_outcome) == gcp_outcome

(***************************************************************************)
(* add_ons.py                                                              *)
(***************************************************************************)
high_impact_conditions == {"parkinsons", "copd", "heart_disease", "stroke"}

\* should_apply_chronic_addon with the functional-impairment rule asking for
\* two BADLs
should_apply_chronic_addon_two_badls(gcp_flags, gcp_answers) ==
    LET chronic_list == Get(gcp_answers, "chronic_conditions", <<>>)
        chronic_count == Len(chronic_list)
        meds == Get(gcp_answers, "meds_complexity", None)
        has_high_impact == \E c \in high_impact_conditions : c \in Elements(chronic_list)
        badls_count == Get(gcp_answers, "badls_count", 0)
        high_impact_count ==
            Cardinality({ i \in 1..Len(chronic_list) :
                            chronic_list[i] \in high_impact_conditions })
    IN  IF chronic_count = 0 THEN FALSE
        ELSE IF chronic_count >= 3 /\ meds \in {"moderate", "complex"} THEN TRUE
        ELSE IF chronic_count >= 2 /\ "falls_multiple" \in gcp_flags THEN TRUE
        ELSE IF has_high_impact /\ badls_count >= 2 THEN TRUE
        ELSE IF high_impact_count >= 2 THEN TRUE
        ELSE FALSE

should_apply_chronic_addon(gcp_flags, gcp_answers) ==
    LET chronic_list == Get(gcp_answers, "chronic_conditions", <<>>)
        chronic_count == Len(chronic_list)
        meds == Get(gcp_answers, "meds_complexity", None)
        has_high_impact == \E c \in high_impact_conditions : c \in Elements(chronic_list)
        badls_count == Get(gcp_answers, "badls_count", 0)
        high_impact_count ==
            Cardinality({ i \in 1..Len(chronic_list) :
                            chronic_list[i] \in high_impact_conditions })
    IN  IF chronic_count = 0 THEN FALSE
        ELSE IF chronic_count >= 3 /\ meds \in {"moderate", "complex"} THEN TRUE
        ELSE IF chronic_count >= 2 /\ "falls_multiple" \in gcp_flags THEN TRUE
        ELSE IF has_high_impact /\ badls_count >= 1 THEN TRUE
        ELSE IF high_impact_count >= 2 THEN TRUE
        ELSE FALSE

\* fitting the cap by leaving out the last add-on instead of scaling
scale_add_ons_drop_last(add_ons, scale_factor) ==
    [i \in 1..(Len(add_ons) - 1) |-> [add_ons[i] EXCEPT !.capped = TRUE]]

\* add_on["amount"] = add_on["amount"] * scale_factor; add_on["capped"] = True
RECURSIVE scale_add_ons(_, _)
scale_add_ons(add_ons, scale_factor) ==
    IF add_ons = <<>> THEN <<>>
    ELSE <<[Head(add_ons) EXCEPT !.amount = RMul(@, scale_factor),
                                 !.capped = TRUE]>>
         \o scale_add_ons(Tail(add_ons), scale_factor)

calculate_add_ons(care_type, gcp_flags, gcp_answers, regional_base) ==
    LET max_addon == RMin(Dollars(MAX_ADDON_ABSOLUTE),
                          RMul(regional_base, MAX_ADDON_PCT))
        fall == IF "falls_multiple" \in gcp_flags
                THEN <<[label |-> "Fall Prevention Monitoring",
                        amount |-> RMin(Dollars(400),
                                        RMul(max_addon, ADDON_AMOUNTS["fall_monitoring"])),
                        description |-> "Enhanced monitoring and prevention protocols",
                        reason |-> "Multiple falls in past 6 months",
                        capped |-> FALSE]>>
                ELSE <<>>
        chronic == IF should_apply_chronic_addon(gcp_flags, gcp_answers)
                THEN <<[label |-> "Chronic Condition Management",
                        amount |-> RMin(Dollars(300),
                                        RMul(max_addon, ADDON_AMOUNTS["chronic_complexity"])),
                        description |-> "Coordination and monitoring for complex chronic conditions",
                        reason |-> "{chronic_count} chronic conditions requiring active management",
                        capped |-> FALSE]>>
                ELSE <<>>
        badls_count == Get(gcp_answers, "badls_count", 0)
        incontinence == IF "incontinence_management" \in gcp_flags /\ badls_count < 2
                THEN <<[label |-> "Incontinence Care",
                        amount |-> RMin(Dollars(250),
                                        RMul(max_addon, ADDON_AMOUNTS["incontinence_care"])),
                        description |-> "Regular assistance and supplies",
                        reason |-> "Requires incontinence management support",
                        capped |-> FALSE]>>
                ELSE <<>>
        add_ons == fall \o chronic \o incontinence
        total_addons == SumAmounts(add_ons)
    IN  IF RLt(max_addon, total_addons)
        THEN scale_add_ons(add_ons, RDiv(max_addon, total_addons))
        ELSE add_ons

\* a call calculate_add_ons(*argv): the function has four required
\* positional parameters
invoke_calculate_add_ons(argv) ==
    IF Len(argv) # 4
    THEN Raise("TypeError", "missing or extra positional argument")
    ELSE Return(calculate_add_ons(argv[1], argv[2], argv[3], argv[4]))

(***************************************************************************)
(* ranges.py                                                               *)
(***************************************************************************)
\* has_high_uncertainty without the rule for high-acuity memory care
has_high_uncertainty_by_needs_only(gcp_flags, gcp_answers, care_type) ==
    LET behaviors_count == Get(gcp_answers, "behaviors_count", 0)
        badls_count == Get(gcp_answers, "badls_count", 0)
    IN  IF "behavioral_concerns" \in gcp_flags /\ behaviors_count >= 3 THEN TRUE
        ELSE IF "transfer_assistance_2person" \in gcp_flags /\ badls_count >= 3 THEN TRUE
        ELSE IF "transfer_lift_required" \in gcp_flags THEN TRUE
        ELSE IF care_type = "in_home_care" /\ "continuous_supervision" \in gcp_flags THEN TRUE
        ELSE FALSE

\* has_high_uncertainty asking for more than three behaviours
has_high_uncertainty_over_three(gcp_flags, gcp_answers, care_type) ==
    LET behaviors_count == Get(gcp_answers, "behaviors_count", 0)
        badls_count == Get(gcp_answers, "badls_count", 0)
    IN  IF "behavioral_concerns" \in gcp_flags /\ behaviors_count > 3 THEN TRUE
        ELSE IF care_type = "memory_care_high_acuity" THEN TRUE
        ELSE IF "transfer_assistance_2person" \in gcp_flags /\ badls_count >= 3 THEN TRUE
        ELSE IF "transfer_lift_required" \in gcp_flags THEN TRUE
        ELSE IF care_type = "in_home_care" /\ "continuous_supervision" \in gcp_flags THEN TRUE
        ELSE FALSE

has_high_uncertainty(gcp_flags, gcp_answers, care_type) ==
    LET behaviors_count == Get(gcp_answers, "behaviors_count", 0)
        badls_count == Get(gcp_answers, "badls_count", 0)
    IN  IF "behavioral_concerns" \in gcp_flags /\ behaviors_count >= 3 THEN TRUE
        ELSE IF care_type = "memory_care_high_acuity" THEN TRUE
        ELSE IF "transfer_assistance_2person" \in gcp_flags /\ badls_count >= 3 THEN TRUE
        ELSE IF "transfer_lift_required" \in gcp_flags THEN TRUE
        ELSE IF care_type = "in_home_care" /\ "continuous_supervision" \in gcp_flags THEN TRUE
        ELSE FALSE

has_moderate_uncertainty(gcp_flags, gcp_answers, care_type) ==
    LET chronic_count == Len(Get(gcp_answers, "chronic_conditions", <<>>))
    IN  IF care_type \in {"memory_care", "memory_care_high_acuity"}
           /\ "behavioral_concerns" \in gcp_flags THEN TRUE
        ELSE IF "falls_multiple" \in gcp_flags
                /\ "high_mobility_dependence" \in gcp_flags THEN TRUE
        ELSE IF chronic_count >= 3 /\ "falls_multiple" \in gcp_flags THEN TRUE
        ELSE IF "high_dependence" \in gcp_flags THEN TRUE
        ELSE IF "continuous_supervision" \in gcp_flags /\ care_type # "in_home_care" THEN TRUE
        ELSE FALSE

\* factors.append(x) under a condition
AppendIf(cond, x) == IF cond THEN <<x>> ELSE <<>>

get_high_uncertainty_factors(gcp_flags, gcp_answers, care_type) ==
    LET behaviors_count == Get(gcp_answers, "behaviors_count", 0)
    IN  AppendIf(behaviors_count >= 3,
            "Significant behavioral needs ({behaviors_count} behaviors) require intensive support")
        \o AppendIf(care_type = "memory_care_high_acuity",
            "High-acuity memory care has wide market variation")
        \o AppendIf("transfer_assistance_2person" \in gcp_flags
                    \/ "transfer_lift_required" \in gcp_flags,
            "2-person transfers or mechanical lifts require specialized staffing")
        \o AppendIf("continuous_supervision" \in gcp_flags /\ care_type = "in_home_care",
            "24/7 in-home care has wide market variation")

get_moderate_uncertainty_factors(gcp_flags, gcp_answers, care_type) ==
    LET chronic_count == Len(Get(gcp_answers, "chronic_conditions", <<>>))
    IN  AppendIf("behavioral_concerns" \in gcp_flags,
            "Behavioral needs may vary and require flexible support")
        \o AppendIf("falls_multiple" \in gcp_flags,
            "Fall risk requires enhanced monitoring")
        \o AppendIf(chronic_count >= 3,
            "{chronic_count} chronic conditions may require additional oversight")
        \o AppendIf("high_dependence" \in gcp_flags,
            "High level of care dependency varies by provider capability")
        \o AppendIf("continuous_supervision" \in gcp_flags,
            "Continuous supervision requirements vary by community")

\* the sentence frame chosen by the confidence, around the joined factors
generate_range_explanation(confidence, widening_factors) ==
    IF confidence = "high"
    THEN [frame |-> "narrow (7%)", joined_by |-> "", reasons |-> <<>>]
    ELSE IF confidence = "medium"
    THEN [frame |-> "moderate (12%)", joined_by |-> " and ", reasons |-> widening_factors]
    ELSE [frame |-> "wide (20%)", joined_by |-> "; ", reasons |-> widening_factors]

calculate_cost_range(total, gcp_flags, gcp_answers, care_type) ==
    LET high_uncertainty == has_high_uncertainty(gcp_flags, gcp_answers, care_type)
        moderate_uncertainty == has_moderate_uncertainty(gcp_flags, gcp_answers, care_type)
        confidence == IF high_uncertainty THEN "low"
                      ELSE IF moderate_uncertainty THEN "medium"
                      ELSE "high"
        widening_factors ==
            IF high_uncertainty
            THEN get_high_uncertainty_factors(gcp_flags, gcp_answers, care_type)
            ELSE IF moderate_uncertainty
            THEN get_moderate_uncertainty_factors(gcp_flags, gcp_answers, care_type)
            ELSE <<"Care needs are stable and predictable">>
        range_pct == CONFIDENCE_RANGES[confidence]
        low == RMul(total, RSub(One, range_pct))
        likely == total
        high == RMul(total, RAdd(One, range_pct))
        explanation == generate_range_explanation(confidence, widening_factors)
    IN  [ low |-> Round2(low),
          likely |-> Round2(likely),
          high |-> Round2(high),
          confidence |-> confidence,
          range_pct |-> range_pct,
          range_explanation |-> explanation,
          widening_factors |-> widening_factors ]

(***************************************************************************)
(* calculator.py                                                           *)
(***************************************************************************)
\* the literal 4.33 of the hourly paths: average weeks per month
WEEKS_PER_MONTH == Rat(433, 100)

\* round(x, 1) of a number of hours, in tenths of an hour
Round1(x) == Round2(RMul(x, Rat(10, 1)))

determine_care_type(gcp_outcome, gcp_flags) ==
    LET recommendation == Get(gcp_outcome, "recommendation", "assisted_living")
        gcp_answers == Get(gcp_outcome, "answers", EmptyDict)
        after_overflow ==
            IF recommendation = "assisted_living"
               /\ should_recommend_memory_care_instead_of_al(gcp_flags, gcp_answers)
            THEN "memory_care"
            ELSE recommendation
    IN  IF after_overflow = "memory_care"
        THEN LET called == invoke_should_recommend_high_acuity_mc(<<gcp_flags, gcp_answers>>)
             IN  IF called.status # "ok" THEN called
                 ELSE IF called.value THEN Return("memory_care_high_acuity")
                 ELSE Return(after_overflow)
        ELSE Return(after_overflow)

\* calculator.py, the part of calculate_assisted_living after the add-ons call
calculate_assisted_living_result(base_cost, regional_base, tier_id, tier_config, tier_increment, max_addon, called) ==
    IF called.status # "ok" THEN called ELSE
    LET addons == called.value
        addon_total == SumAmounts(addons)
        total == RAdd(RAdd(regional_base, tier_increment), addon_total)
    IN  Return([
            total_monthly |-> Round2(total),
            base_cost |-> Round2(base_cost),
            regional_base |-> Round2(regional_base),
            tier |-> tier_config["label"],
            tier_id |-> tier_id,
            tier_increment |-> Round2(tier_increment),
            tier_description |-> tier_config["description"],
            addons |-> addons,
            addon_total |-> Round2(addon_total),
            addon_cap |-> Round2(max_addon),
            breakdown |-> <<
                [label |-> "National Base", amount |-> Round2(base_cost)],
                [label |-> "Regional Adjustment",
                 amount |-> Round2(RSub(regional_base, base_cost))],
                [label |-> "Care Tier", amount |-> Round2(tier_increment)],
                [label |-> "Add-ons", amount |-> Round2(addon_total)] >> ])

calculate_assisted_living(gcp_flags, gcp_answers, regional_multiplier) ==
    LET base == get_base_cost("assisted_living", "monthly")
    IN  IF base.status # "ok" THEN base ELSE
    LET base_cost == base.value
        regional_base == RMul(base_cost, regional_multiplier)
        tier_id == assign_assisted_living_tier(gcp_flags, gcp_answers)
        tier_config == get_tier_config("assisted_living", tier_id)
        increment == get_tier_increment("assisted_living", tier_id, regional_multiplier)
    IN  IF increment.status # "ok" THEN increment ELSE
    LET tier_increment == increment.value
        max_addon == RMin(Dollars(800), RMul(regional_base, Rat(15, 100)))
    IN  calculate_assisted_living_result(
            base_cost, regional_base, tier_id, tier_config, tier_increment, max_addon,
            invoke_calculate_add_ons(<<gcp_flags, gcp_answers, max_addon>>))

\* calculator.py, the part of calculate_memory_care after the add-ons call
calculate_memory_care_result(base_cost, regional_base, tier_id, tier_config, tier_increment, max_addon, called) ==
    IF called.status # "ok" THEN called ELSE
    LET addons == called.value
        addon_total == SumAmounts(addons)
        total == RAdd(RAdd(regional_base, tier_increment), addon_total)
    IN  Return([
            total_monthly |-> Round2(total),
            base_cost |-> Round2(base_cost),
            regional_base |-> Round2(regional_base),
            tier |-> tier_config["label"],
            tier_id |-> tier_id,
            tier_increment |-> Round2(tier_increment),
            tier_description |-> tier_config["description"],
            addons |-> addons,
            addon_total |-> Round2(addon_total),
            addon_cap |-> Round2(max_addon),
            breakdown |-> <<
                [label |-> "National Base", amount |-> Round2(base_cost)],
                [label |-> "Regional Adjustment",
                 amount |-> Round2(RSub(regional_base, base_cost))],
                [label |-> "Care Tier", amount |-> Round2(tier_increment)],
                [label |-> "Add-ons", amount |-> Round2(addon_total)] >> ])

calculate_memory_care(gcp_flags, gcp_answers, regional_multiplier) ==
    LET base == get_base_cost("memory_care", "monthly")
    IN  IF base.status # "ok" THEN base ELSE
    LET base_cost == base.value
        regional_base == RMul(base_cost, regional_multiplier)
        tier_id == assign_memory_care_tier(gcp_flags, gcp_answers)
        tier_config == get_tier_config("memory_care", tier_id)
        increment == get_tier_increment("memory_care", tier_id, regional_multiplier)
    IN  IF increment.status # "ok" THEN increment ELSE
    LET tier_increment == increment.value
        max_addon == RMin(Dollars(800), RMul(regional_base, Rat(15, 100)))
    IN  calculate_memory_care_result(
            base_cost, regional_base, tier_id, tier_config, tier_increment, max_addon,
            invoke_calculate_add_ons(<<gcp_flags, gcp_answers, max_addon>>))

\* calculator.py, the part of calculate_memory_care_high_acuity after the
\* add-ons call
calculate_memory_care_high_acuity_result(base_cost, regional_base, max_addon, called) ==
    IF called.status # "ok" THEN called ELSE
    LET addons == called.value
        addon_total == SumAmounts(addons)
        total == RAdd(regional_base, addon_total)
    IN  Return([
            total_monthly |-> Round2(total),
            base_cost |-> Round2(base_cost),
            regional_base |-> Round2(regional_base),
            tier |-> "High Acuity",
            tier_id |-> "high_acuity",
            tier_increment |-> 0,
            tier_description |-> "24/7 specialized memory care with highest level of support",
            addons |-> addons,
            addon_total |-> Round2(addon_total),
            addon_cap |-> Round2(max_addon),
            breakdown |-> <<
                [label |-> "National Base", amount |-> Round2(base_cost)],
                [label |-> "Regional Adjustment",
                 amount |-> Round2(RSub(regional_base, base_cost))],
                [label |-> "Add-ons", amount |-> Round2(addon_total)] >> ])

calculate_memory_care_high_acuity(gcp_flags, gcp_answers, regional_multiplier) ==
    LET base == get_base_cost("memory_care_high_acuity", "monthly")
    IN  IF base.status # "ok" THEN base ELSE
    LET base_cost == base.value
        regional_base == RMul(base_cost, regional_multiplier)
        max_addon == RMin(Dollars(800), RMul(regional_base, Rat(15, 100)))
    IN  calculate_memory_care_high_acuity_result(
            base_cost, regional_base, max_addon,
            invoke_calculate_add_ons(<<gcp_flags, gcp_answers, max_addon>>))

calculate_in_home_care(gcp_flags, gcp_answers, regional_multiplier) ==
    LET base == get_base_cost("in_home_hourly", "monthly")
    IN  IF base.status # "ok" THEN base ELSE
    LET hourly_base == base.value
        regional_hourly == RMul(hourly_base, regional_multiplier)
        hours_per_week == Get(gcp_answers, "recommended_hours_per_week", 20)
        hours_per_month == RMul(Rat(hours_per_week, 1), WEEKS_PER_MONTH)
        total == RMul(regional_hourly, hours_per_month)
    IN  Return([
            total_monthly |-> Round2(total),
            hourly_base |-> Round2(hourly_base),
            regional_hourly |-> Round2(regional_hourly),
            hours_per_week |-> Rat(hours_per_week, 1),
            hours_per_month |-> Round1(hours_per_month),
            tier |-> "{hours_per_week} hours/week",
            tier_id |-> "hourly",
            breakdown |-> <<
                [label |-> "National Hourly Rate", amount |-> Round2(hourly_base)],
                [label |-> "Regional Adjustment",
                 amount |-> Round2(RSub(regional_hourly, hourly_base))],
                [label |-> "hrs/week x 4.33", amount |-> Round2(total)] >> ])

calculate_homemaker_care(gcp_flags, gcp_answers, regional_multiplier) ==
    LET base == get_base_cost("homemaker_hourly", "monthly")
    IN  IF base.status # "ok" THEN base ELSE
    LET hourly_base == base.value
        regional_hourly == RMul(hourly_base, regional_multiplier)
        hours_per_week == Get(gcp_answers, "recommended_hours_per_week", 10)
        hours_per_month == RMul(Rat(hours_per_week, 1), WEEKS_PER_MONTH)
        total == RMul(regional_hourly, hours_per_month)
    IN  Return([
            total_monthly |-> Round2(total),
            hourly_base |-> Round2(hourly_base),
            regional_hourly |-> Round2(regional_hourly),
            hours_per_week |-> Rat(hours_per_week, 1),
            hours_per_month |-> Round1(hours_per_month),
            tier |-> "{hours_per_week} hours/week",
            tier_id |-> "hourly",
            breakdown |-> <<
                [label |-> "National Hourly Rate", amount |-> Round2(hourly_base)],
                [label |-> "Regional Adjustment",
                 amount |-> Round2(RSub(regional_hourly, hourly_base))],
                [label |-> "hrs/week x 4.33", amount |-> Round2(total)] >> ])

calculate_home_with_carry(gcp_flags, gcp_answers, regional_multiplier) ==
    LET base == get_base_cost("in_home_hourly", "monthly")
    IN  IF base.status # "ok" THEN base ELSE
    LET hourly_base == base.value
        regional_hourly == RMul(hourly_base, regional_multiplier)
        full_hours == Rat(Get(gcp_answers, "recommended_hours_per_week", 20), 1)
        hours_per_week == RMul(full_hours, Rat(5, 10))
        hours_per_month == RMul(hours_per_week, WEEKS_PER_MONTH)
        total == RMul(regional_hourly, hours_per_month)
    IN  Return([
            total_monthly |-> Round2(total),
            hourly_base |-> Round2(hourly_base),
            regional_hourly |-> Round2(regional_hourly),
            hours_per_week |-> Round1(hours_per_week),
            hours_per_month |-> Round1(hours_per_month),
            family_hours_per_week |-> Round1(RSub(full_hours, hours_per_week)),
            tier |-> "{hours_per_week} hours/week (with family support)",
            tier_id |-> "hourly_with_carry",
            breakdown |-> <<
                [label |-> "National Hourly Rate", amount |-> Round2(hourly_base)],
                [label |-> "Regional Adjustment",
                 amount |-> Round2(RSub(regional_hourly, hourly_base))],
                [label |-> "hrs/week x 4.33", amount |-> Round2(total)],
                [label |-> "Family provides", amount |-> 0] >> ])

\* targets = iterable: as many values as targets, or ValueError
unpack(values, targets) ==
    IF Len(values) > targets
    THEN Raise("ValueError", "too many values to unpack")
    ELSE IF Len(values) < targets
    THEN Raise("ValueError", "not enough values to unpack")
    ELSE Return(values)

\* calculator.py, result.update(...) twice: the range fields, then the metadata
calculate_care_costs_update(result, range_result, care_type, regional_multiplier) ==
    Return(
        [ care_type |-> care_type,
          regional_multiplier |-> regional_multiplier,
          model_version |-> "3.0.0",
          calculation_method |-> "tier_based" ]
        @@ [ low_estimate |-> range_result["low"],
             likely_estimate |-> range_result["likely"],
             high_estimate |-> range_result["high"],
             confidence |-> range_result["confidence"],
             range_pct |-> range_result["range_pct"],
             range_explanation |-> range_result["range_explanation"],
             widening_factors |-> range_result["widening_factors"] ]
        @@ result)

\* calculator.py, the part of calculate_care_costs after the path calculation
calculate_care_costs_range(calculated, gcp_flags, gcp_answers, care_type, regional_multiplier) ==
    IF calculated.status # "ok" THEN calculated
    ELSE calculate_care_costs_update(
            calculated.value,
            calculate_cost_range(Cents(calculated.value["total_monthly"]),
                                 gcp_flags, gcp_answers, care_type),
            care_type, regional_multiplier)

\* calculator.py, the if / elif chain over the care type
calculate_care_costs_dispatch(care_type, gcp_flags, gcp_answers, regional_multiplier) ==
    IF care_type = "assisted_living"
    THEN calculate_assisted_living(gcp_flags, gcp_answers, regional_multiplier)
    ELSE IF care_type = "memory_care"
    THEN calculate_memory_care(gcp_flags, gcp_answers, regional_multiplier)
    ELSE IF care_type = "memory_care_high_acuity"
    THEN calculate_memory_care_high_acuity(gcp_flags, gcp_answers, regional_multiplier)
    ELSE IF care_type = "in_home_care"
    THEN calculate_in_home_care(gcp_flags, gcp_answers, regional_multiplier)
    ELSE IF care_type = "homemaker_care"
    THEN calculate_homemaker_care(gcp_flags, gcp_answers, regional_multiplier)
    ELSE IF care_type = "home_with_carry"
    THEN calculate_home_with_carry(gcp_flags, gcp_answers, regional_multiplier)
    ELSE Raise("ValueError", "Unknown care type")

calculate_care_costs(gcp_outcome, regional_multiplier, care_type) ==
    LET context == prepare_gcp_context(gcp_outcome)
        \* gcp_flags, gcp_answers = <the dict>: iterating a dict yields its keys
        unpacked == unpack(SelectSeq(prepare_gcp_context_keys,
                                     LAMBDA k : k \in DOMAIN context), 2)
    IN  IF unpacked.status # "ok" THEN unpacked ELSE
    LET gcp_flags == unpacked.value[1]
        gcp_answers == unpacked.value[2]
        determined == IF care_type = None
                      THEN determine_care_type(gcp_outcome, gcp_flags)
                      ELSE Return(care_type)
    IN  IF determined.status # "ok" THEN determined
        ELSE calculate_care_costs_range(
                calculate_care_costs_dispatch(determined.value, gcp_flags,
                                              gcp_answers, regional_multiplier),
                gcp_flags, gcp_answers, determined.value, regional_multiplier)

\* the caller's record after determine_care_type: read with .get only
determine_care_type_record(gcp_outcome) == gcp_outcome

\* the caller's record after calculate_care_costs: it is handed to
\* prepare_gcp_context and, when no care type is given, to determine_care_type;
\* the path calculations get the normalized answers, never the record
calculate_care_costs_record(gcp_outcome, regional_multiplier, care_type) ==
    LET prepared == prepare_gcp_context_record(gcp_outcome)
        context == prepare_gcp_context(gcp_outcome)
        unpacked == unpack(SelectSeq(prepare_gcp_context_keys,
                                     LAMBDA k : k \in DOMAIN context), 2)
    IN  IF unpacked.status = "ok" /\ care_type = None
        THEN determine_care_type_record(prepared)
        ELSE prepared

(***************************************************************************)
(* The caller.                                                             *)
(***************************************************************************)
\* the flags assign_assisted_living_tier reads
ALTierFlags == {
    "severe_cognitive_risk", "high_mobility_dependence", "behavioral_concerns",
    "continuous_supervision", "moderate_cognitive_decline", "high_dependence",
    "transfer_assistance_1person", "incontinence_management", "falls_multiple",
    "mild_cognitive_decline" }

\* the flags assign_memory_care_tier reads
MCTierFlags == {
    "behavioral_concerns", "continuous_supervision", "high_dependence",
    "transfer_lift_required", "transfer_assistance_2person",
    "high_mobility_dependence", "incontinence_management",
    "transfer_assistance_1person", "moderate_mobility" }

\* the flags the two escalation predicates read
EscalationFlags == {
    "memory_care_dx", "severe_cognitive_risk", "behavioral_concerns",
    "continuous_supervision", "transfer_lift_required" }

\* the flags calculate_add_ons reads
AddOnFlags == { "falls_multiple", "incontinence_management" }

\* the flags the uncertainty predicates read
RangeFlags == {
    "behavioral_concerns", "transfer_assistance_2person", "transfer_lift_required",
    "continuous_supervision", "falls_multiple", "high_mobility_dependence",
    "high_dependence" }

\* flags that reach every stage of a facility calculation
FacilityFlags == {
    "falls_multiple", "incontinence_management", "behavioral_concerns",
    "high_dependence" }

FlagSets(universe) == { f \in SUBSET universe : Cardinality(f) <= MaxFlags }

MedsValues == { None, "simple", "moderate", "complex" }

CareTypes == {
    "assisted_living", "memory_care", "memory_care_high_acuity",
    "in_home_care", "homemaker_care", "home_with_carry" }

\* what a caller may pass as a care type or as the recommendation
CareTypeStrings == CareTypes \cup { "nursing_home" }

\* the 0.8 .. 1.5 slider of the test tool, at four of its positions
Multipliers == { Rat(8, 10), Rat(9, 10), Rat(1, 1), Rat(13, 10) }

ChronicConditions == { "diabetes", "copd", "stroke" }

ChronicLists ==
    UNION { [1..n -> ChronicConditions] : n \in 0..MaxChronic }

\* a list of k distinct entries, with the sentinel "none" in front when asked
ItemList(k, sentinel) ==
    (IF sentinel THEN <<"none">> ELSE <<>>)
    \o [i \in 1..k |-> <<"bathing", "dressing", "eating", "toileting",
                         "transferring", "grooming", "walking", "other">>[i]]

\* a set of flags as a list, the first flag repeated at the end when asked
RECURSIVE FlagList(_)
FlagList(f) ==
    IF f = {} THEN <<>>
    ELSE LET x == CHOOSE y \in f : TRUE IN <<x>> \o FlagList(f \ {x})

RepeatFirst(s, again) == IF again /\ s # <<>> THEN s \o <<Head(s)>> ELSE s

Init ==
    /\ pc = "idle"
    /\ fn = "none"
    /\ args = EmptyDict
    /\ ret = Return(None)
    /\ record = None

Call_assign_assisted_living_tier ==
    /\ pc = "idle"
    /\ \E gcp_flags \in FlagSets(ALTierFlags), b \in -1..MaxBadls,
          i \in 0..MaxIadls, m \in MedsValues :
        LET gcp_answers == Entry("badls_count", b >= 0, b)
                           @@ ("iadls_count" :> i) @@ ("meds_complexity" :> m)
        IN  /\ args' = [gcp_flags |-> gcp_flags, gcp_answers |-> gcp_answers]
            /\ ret' = Return(assign_assisted_living_tier(gcp_flags, gcp_answers))
    /\ fn' = "assign_assisted_living_tier"
    /\ pc' = "done"
    /\ UNCHANGED record

Call_assign_memory_care_tier ==
    /\ pc = "idle"
    /\ \E gcp_flags \in FlagSets(MCTierFlags), b \in -1..MaxBadls,
          v \in 0..MaxBehaviors :
        LET gcp_answers == Entry("badls_count", b >= 0, b)
                           @@ ("behaviors_count" :> v)
        IN  /\ args' = [gcp_flags |-> gcp_flags, gcp_answers |-> gcp_answers]
            /\ ret' = Return(assign_memory_care_tier(gcp_flags, gcp_answers))
    /\ fn' = "assign_memory_care_tier"
    /\ pc' = "done"
    /\ UNCHANGED record

Call_should_recommend_memory_care_instead_of_al ==
    /\ pc = "idle"
    /\ \E gcp_flags \in FlagSets(EscalationFlags), b \in -1..MaxBadls,
          v \in 0..MaxBehaviors, sa \in { None, "yes", "no" } :
        LET gcp_answers == Entry("badls_count", b >= 0, b)
                           @@ ("behaviors_count" :> v) @@ ("safe_alone" :> sa)
        IN  /\ args' = [gcp_flags |-> gcp_flags, gcp_answers |-> gcp_answers]
            /\ ret' = Return(should_recommend_memory_care_instead_of_al(
                                gcp_flags, gcp_answers))
    /\ fn' = "should_recommend_memory_care_instead_of_al"
    /\ pc' = "done"
    /\ UNCHANGED record

Call_should_recommend_high_acuity_mc ==
    /\ pc = "idle"
    /\ \E gcp_flags \in FlagSets(EscalationFlags), v \in 0..MaxBehaviors,
          inc \in { None, "occasional", "complete" }, t \in 1..Len(TierIds) :
        LET gcp_answers == ("behaviors_count" :> v) @@ ("incontinence" :> inc)
        IN  /\ args' = [gcp_flags |-> gcp_flags, gcp_answers |-> gcp_answers,
                        mc_tier |-> TierIds[t]]
            /\ ret' = invoke_should_recommend_high_acuity_mc(
                        <<gcp_flags, gcp_answers, TierIds[t]>>)
    /\ fn' = "should_recommend_high_acuity_mc"
    /\ pc' = "done"
    /\ UNCHANGED record

\* an assessment as the upstream assessment hands it over: the flags as a
\* list, the answers as raw lists and scalars, the recommendation
RawOutcome(f, again, b, bnone, v, sa, inc, rec) ==
    LET answers == Entry("badls", b >= 0, PyList(ItemList(b, bnone)))
                   @@ Entry("badls", b = -2, NotAList)
                   @@ ("behaviors" :> PyList(ItemList(v, FALSE)))
                   @@ Entry("safe_alone", sa # None, sa)
                   @@ Entry("incontinence", inc # None, inc)
    IN  Entry("flags", f # {} \/ again, RepeatFirst(FlagList(f), again))
        @@ Entry("answers", b # -3, answers)
        @@ Entry("recommendation", rec # None, rec)

\* an assessment as the test tool builds it: the counts already in the answers
CountedOutcome(f, b, v, sa, inc, rec) ==
    LET answers == ("badls_count" :> b) @@ ("behaviors_count" :> v)
                   @@ Entry("safe_alone", sa # None, sa)
                   @@ Entry("incontinence", inc # None, inc)
    IN  ("flags" :> FlagList(f)) @@ ("answers" :> answers)
        @@ Entry("recommendation", rec # None, rec)

\* an assessment with its iadls and chronic_conditions answers filled in: as
\* lists holding the sentinel, or as values that are not lists
WithOtherLists(gcp_outcome, others) ==
    IF others = "absent" \/ "answers" \notin DOMAIN gcp_outcome THEN gcp_outcome
    ELSE [gcp_outcome EXCEPT !["answers"] =
            (IF others = "lists"
             THEN ("iadls" :> PyList(<<"none", "cooking">>))
                  @@ ("chronic_conditions" :> PyList(<<"copd", "none", "stroke">>))
             ELSE ("iadls" :> NotAList) @@ ("chronic_conditions" :> NotAList))
            @@ @]

Call_prepare_gcp_context ==
    /\ pc = "idle"
    /\ \E f \in FlagSets(EscalationFlags), again \in BOOLEAN,
          b \in -3..MaxRawBadls, bnone \in BOOLEAN, v \in 0..MaxBehaviors,
          sa \in { None, "no" } :
        \E others \in { "absent", "lists", "scalars" } :
        LET gcp_outcome == WithOtherLists(
                RawOutcome(f, again, b, bnone, v, sa, None, None), others)
        IN  /\ args' = [gcp_outcome |-> gcp_outcome]
            /\ ret' = Return(prepare_gcp_context(gcp_outcome))
            /\ record' = prepare_gcp_context_record(gcp_outcome)
    /\ fn' = "prepare_gcp_context"
    /\ pc' = "done"

Call_determine_care_type ==
    /\ pc = "idle"
    /\ \E f \in FlagSets(EscalationFlags), counted \in BOOLEAN,
          b \in 0..MaxRawBadls, v \in 0..MaxBehaviors, sa \in { None, "no" },
          inc \in { None, "complete" }, rec \in CareTypeStrings \cup { None } :
        LET gcp_outcome == IF counted
                           THEN CountedOutcome(f, b, v, sa, inc, rec)
                           ELSE RawOutcome(f, FALSE, b, FALSE, v, sa, inc, rec)
        IN  /\ args' = [gcp_outcome |-> gcp_outcome, gcp_flags |-> f]
            /\ ret' = determine_care_type(gcp_outcome, f)
            /\ record' = determine_care_type_record(gcp_outcome)
    /\ fn' = "determine_care_type"
    /\ pc' = "done"

Call_calculate_add_ons ==
    /\ pc = "idle"
    /\ \E care_type \in { "assisted_living", "memory_care", "memory_care_high_acuity" },
          regional_multiplier \in Multipliers,
          gcp_flags \in FlagSets(AddOnFlags), b \in 0..MaxBadls,
          chronic \in ChronicLists, m \in { None, "moderate" } :
        LET gcp_answers == ("badls_count" :> b) @@ ("chronic_conditions" :> chronic)
                           @@ ("meds_complexity" :> m)
            regional_base == RMul(get_base_cost(care_type, "monthly").value,
                                  regional_multiplier)
        IN  /\ args' = [care_type |-> care_type, gcp_flags |-> gcp_flags,
                        gcp_answers |-> gcp_answers, regional_base |-> regional_base]
            /\ ret' = invoke_calculate_add_ons(
                        <<care_type, gcp_flags, gcp_answers, regional_base>>)
    /\ fn' = "calculate_add_ons"
    /\ pc' = "done"
    /\ UNCHANGED record

\* the chronic conditions of a direct call of should_apply_chronic_addon: the
\* four high-impact ones and one that is not
HighImpactAndOther == { "diabetes", "parkinsons", "copd", "heart_disease", "stroke" }

Call_should_apply_chronic_addon ==
    /\ pc = "idle"
    /\ \E gcp_flags \in SUBSET { "falls_multiple" },
          n \in 0..MaxChronic, m \in MedsValues, b \in -1..2 :
        \E chronic \in [1..n -> HighImpactAndOther] :
            LET gcp_answers == Entry("badls_count", b >= 0, b)
                               @@ ("chronic_conditions" :> chronic)
                               @@ ("meds_complexity" :> m)
            IN  /\ args' = [gcp_flags |-> gcp_flags, gcp_answers |-> gcp_answers]
                /\ ret' = Return(should_apply_chronic_addon(gcp_flags, gcp_answers))
    /\ fn' = "should_apply_chronic_addon"
    /\ pc' = "done"
    /\ UNCHANGED record

\* the totals handed to calculate_cost_range, in cents
Totals == { 0, 590000, 588880, 1266050 }

Call_calculate_cost_range ==
    /\ pc = "idle"
    /\ \E total \in Totals, gcp_flags \in FlagSets(RangeFlags),
          b \in { 0, MaxBadls }, v \in { 0, MaxBehaviors },
          chronic \in { <<>>, <<"diabetes", "copd", "stroke">> },
          care_type \in CareTypes :
        LET gcp_answers == ("badls_count" :> b) @@ ("behaviors_count" :> v)
                           @@ ("chronic_conditions" :> chronic)
        IN  /\ args' = [total |-> Cents(total), gcp_flags |-> gcp_flags,
                        gcp_answers |-> gcp_answers, care_type |-> care_type]
            /\ ret' = Return(calculate_cost_range(Cents(total), gcp_flags,
                                                  gcp_answers, care_type))
    /\ fn' = "calculate_cost_range"
    /\ pc' = "done"
    /\ UNCHANGED record

\* the normalized answers a path calculation is handed
NormalizedAnswers(b, v, chronic, m, h) ==
    [ badls_count |-> b, iadls_count |-> 0, behaviors_count |-> v,
      chronic_conditions |-> chronic, meds_complexity |-> m ]
    @@ Entry("recommended_hours_per_week", h > 0, h)

\* the six path calculations, called with a normalized context
Call_path(name) ==
    /\ pc = "idle"
    /\ \E gcp_flags \in FlagSets(FacilityFlags), b \in 0..MaxBadls,
          v \in { 0, MaxBehaviors },
          chronic \in { <<>>, <<"copd", "stroke">> }, h \in { 0, 20, 40 },
          regional_multiplier \in Multipliers :
        LET gcp_answers == NormalizedAnswers(b, v, chronic, None, h)
        IN  /\ args' = [gcp_flags |-> gcp_flags, gcp_answers |-> gcp_answers,
                        regional_multiplier |-> regional_multiplier]
            /\ ret' = CASE name = "calculate_assisted_living" ->
                             calculate_assisted_living(gcp_flags, gcp_answers,
                                                       regional_multiplier)
                        [] name = "calculate_memory_care" ->
                             calculate_memory_care(gcp_flags, gcp_answers,
                                                   regional_multiplier)
                        [] name = "calculate_memory_care_high_acuity" ->
                             calculate_memory_care_high_acuity(gcp_flags, gcp_answers,
                                                               regional_multiplier)
                        [] name = "calculate_in_home_care" ->
                             calculate_in_home_care(gcp_flags, gcp_answers,
                                                    regional_multiplier)
                        [] name = "calculate_homemaker_care" ->
                             calculate_homemaker_care(gcp_flags, gcp_answers,
                                                      regional_multiplier)
                        [] name = "calculate_home_with_carry" ->
                             calculate_home_with_carry(gcp_flags, gcp_answers,
                                                       regional_multiplier)
    /\ fn' = name
    /\ pc' = "done"
    /\ UNCHANGED record

Call_calculate_assisted_living == Call_path("calculate_assisted_living")
Call_calculate_memory_care == Call_path("calculate_memory_care")
Call_calculate_memory_care_high_acuity == Call_path("calculate_memory_care_high_acuity")
Call_calculate_in_home_care == Call_path("calculate_in_home_care")
Call_calculate_homemaker_care == Call_path("calculate_homemaker_care")
Call_calculate_home_with_carry == Call_path("calculate_home_with_carry")

\* the flags of an assessment handed to the orchestrator
OrchestratorFlags == {
    "memory_care_dx", "behavioral_concerns", "transfer_lift_required",
    "falls_multiple" }

Call_calculate_care_costs ==
    /\ pc = "idle"
    /\ \E f \in FlagSets(OrchestratorFlags),
          b \in -3..MaxRawBadls, v \in { 0, MaxBehaviors },
          rec \in { None, "assisted_living", "memory_care", "in_home_care",
                    "nursing_home" },
          care_type \in CareTypeStrings \cup { None },
          regional_multiplier \in { Rat(1, 1), Rat(13, 10) } :
        LET gcp_outcome == RawOutcome(f, FALSE, b, FALSE, v, None, None, rec)
        IN  /\ args' = [gcp_outcome |-> gcp_outcome,
                        regional_multiplier |-> regional_multiplier,
                        care_type |-> care_type]
            /\ ret' = calculate_care_costs(gcp_outcome, regional_multiplier, care_type)
            /\ record' = calculate_care_costs_record(gcp_outcome, regional_multiplier,
                                                     care_type)
    /\ fn' = "calculate_care_costs"
    /\ pc' = "done"

\* the caller has taken the outcome; nothing of the call is kept
Done ==
    /\ pc = "done"
    /\ pc' = "idle"
    /\ fn' = "none"
    /\ args' = EmptyDict
    /\ ret' = Return(None)
    /\ record' = None

(***************************************************************************)
(* Specifications: the whole engine, and one per module of it.             *)
(***************************************************************************)
NextTier ==
    \/ Call_assign_assisted_living_tier
    \/ Call_assign_memory_care_tier
    \/ Call_should_recommend_memory_care_instead_of_al
    \/ Call_should_recommend_high_acuity_mc
    \/ Call_prepare_gcp_context
    \/ Done

SpecTier == Init /\ [][NextTier]_vars

NextAddOns ==
    \/ Call_calculate_add_ons
    \/ Call_should_apply_chronic_addon
    \/ Done

SpecAddOns == Init /\ [][NextAddOns]_vars

NextRanges ==
    \/ Call_calculate_cost_range
    \/ Done

SpecRanges == Init /\ [][NextRanges]_vars

NextCalculator ==
    \/ Call_determine_care_type
    \/ Call_calculate_assisted_living
    \/ Call_calculate_memory_care
    \/ Call_calculate_memory_care_high_acuity
    \/ Call_calculate_in_home_care
    \/ Call_calculate_homemaker_care
    \/ Call_calculate_home_with_carry
    \/ Call_calculate_care_costs
    \/ Done

SpecCalculator == Init /\ [][NextCalculator]_vars

Next ==
    \/ NextTier
    \/ NextAddOns
    \/ NextRanges
    \/ NextCalculator

Spec == Init /\ [][Next]_vars

(***************************************************************************)
(* Properties.                                                             *)
(***************************************************************************)
Called(name) == pc = "done" /\ fn = name

\* the position of a tier in tier_0 < tier_1 < tier_2 < tier_3 < tier_4
TierRank(t) == CHOOSE i \in 1..Len(TierIds) : TierIds[i] = t

\* the care type a call of calculate_care_costs is asked for
RequestedCareType ==
    IF args.care_type # None THEN args.care_type
    ELSE Get(args.gcp_outcome, "recommendation", "assisted_living")

\* C1: for each of the six recognized care types, given as the override or
\* as the recommendation, and every assessment record, sparse ones included,
\* calculate_care_costs returns a cost result.
C1_ReturnsResultForKnownCareType ==
    (Called("calculate_care_costs") /\ RequestedCareType \in CareTypes)
        => ret.status = "ok"

FacilityPaths == { "calculate_assisted_living", "calculate_memory_care",
                   "calculate_memory_care_high_acuity" }

HourlyPaths == { "calculate_in_home_care", "calculate_homemaker_care",
                 "calculate_home_with_carry" }

\* C2: every facility-path calculation yields a result whose addon_total does
\* not exceed the addon_cap it reports, min(800, regional_base x 0.15).
C2_AddonTotalWithinCap ==
    (pc = "done" /\ fn \in FacilityPaths)
        => /\ ret.status = "ok"
           /\ ret.value.addon_total <= ret.value.addon_cap
           /\ ret.value.addon_cap =
                Round2(RMin(Dollars(800),
                            RMul(Cents(ret.value.regional_base), Rat(15, 100))))

\* C3: assign_assisted_living_tier is the ordered cascade tier_4 (at least two
\* of five high-intensity conditions), else tier_3, else tier_2, else tier_1,
\* else tier_0, and always returns one of the five tiers; the flags
\* behavioral_concerns, high_mobility_dependence, continuous_supervision with
\* badls_count = 3 give tier_4.
C3_AssistedLivingCascade ==
    Called("assign_assisted_living_tier") =>
        LET f == args.gcp_flags
            b == Get(args.gcp_answers, "badls_count", 0)
            i == Get(args.gcp_answers, "iadls_count", 0)
            m == Get(args.gcp_answers, "meds_complexity", None)
            n4 == Cardinality(f \cap { "severe_cognitive_risk",
                                       "high_mobility_dependence",
                                       "behavioral_concerns",
                                       "continuous_supervision" })
                  + (IF b >= 3 THEN 1 ELSE 0)
            t4 == n4 >= 2
            t3 == \/ "severe_cognitive_risk" \in f
                  \/ ("moderate_cognitive_decline" \in f /\ b >= 2)
                  \/ "behavioral_concerns" \in f
                  \/ b >= 3
                  \/ "high_dependence" \in f
            t2 == \/ "high_mobility_dependence" \in f
                  \/ "transfer_assistance_1person" \in f
                  \/ b >= 2
                  \/ "incontinence_management" \in f
                  \/ "falls_multiple" \in f
            t1 == \/ m = "moderate" \/ m = "complex"
                  \/ b = 1
                  \/ i >= 4
                  \/ "mild_cognitive_decline" \in f
        IN  /\ ret.status = "ok"
            /\ ret.value \in { "tier_0", "tier_1", "tier_2", "tier_3", "tier_4" }
            /\ (ret.value = "tier_4") <=> t4
            /\ (ret.value = "tier_3") <=> (~t4 /\ t3)
            /\ (ret.value = "tier_2") <=> (~t4 /\ ~t3 /\ t2)
            /\ (ret.value = "tier_1") <=> (~t4 /\ ~t3 /\ ~t2 /\ t1)
            /\ (ret.value = "tier_0") <=> (~t4 /\ ~t3 /\ ~t2 /\ ~t1)
            /\ (f = { "behavioral_concerns", "high_mobility_dependence",
                      "continuous_supervision" } /\ b = 3)
                    => ret.value = "tier_4"

\* the scenario of C3 has been assigned its tier
C3_Witness ==
    /\ Called("assign_assisted_living_tier")
    /\ args.gcp_flags = { "behavioral_concerns", "high_mobility_dependence",
                          "continuous_supervision" }
    /\ Get(args.gcp_answers, "badls_count", 0) = 3
    /\ ret.value = "tier_4"

\* C4: assign_memory_care_tier is the ordered cascade tier_4, else tier_3,
\* else tier_2, else tier_1, else tier_0 over the memory-care conditions, and
\* always returns one of the five tiers.
C4_MemoryCareCascade ==
    Called("assign_memory_care_tier") =>
        LET f == args.gcp_flags
            b == Get(args.gcp_answers, "badls_count", 0)
            v == Get(args.gcp_answers, "behaviors_count", 0)
            t4 == \/ ("behavioral_concerns" \in f /\ v >= 3)
                  \/ ("continuous_supervision" \in f /\ "high_dependence" \in f)
                  \/ b >= 4
                  \/ "transfer_lift_required" \in f
            t3 == \/ "behavioral_concerns" \in f
                  \/ b >= 3
                  \/ "transfer_assistance_2person" \in f
                  \/ "high_dependence" \in f
            t2 == \/ b >= 2
                  \/ "high_mobility_dependence" \in f
                  \/ "incontinence_management" \in f
            t1 == \/ b = 1
                  \/ "transfer_assistance_1person" \in f
                  \/ "moderate_mobility" \in f
        IN  /\ ret.status = "ok"
            /\ ret.value \in { "tier_0", "tier_1", "tier_2", "tier_3", "tier_4" }
            /\ (ret.value = "tier_4") <=> t4
            /\ (ret.value = "tier_3") <=> (~t4 /\ t3)
            /\ (ret.value = "tier_2") <=> (~t4 /\ ~t3 /\ t2)
            /\ (ret.value = "tier_1") <=> (~t4 /\ ~t3 /\ ~t2 /\ t1)
            /\ (ret.value = "tier_0") <=> (~t4 /\ ~t3 /\ ~t2 /\ ~t1)

\* a memory-care tier decided by the last rule of the cascade
C4_Witness ==
    /\ Called("assign_memory_care_tier")
    /\ args.gcp_flags = { "moderate_mobility" }
    /\ Get(args.gcp_answers, "badls_count", 0) = 0
    /\ ret.value = "tier_1"

\* the tier the called tier function gives when badls_count is replaced by b
TierAtBadls(b) ==
    LET answers == ("badls_count" :> b) @@ args.gcp_answers
    IN  IF fn = "assign_assisted_living_tier"
        THEN assign_assisted_living_tier(args.gcp_flags, answers)
        ELSE assign_memory_care_tier(args.gcp_flags, answers)

\* C5: with the flags and the other answers fixed, a larger badls_count never
\* gives a lower assisted-living or memory-care tier.
C5_TierMonotoneInBadls ==
    (pc = "done" /\ fn \in { "assign_assisted_living_tier",
                             "assign_memory_care_tier" }) =>
        \A b \in Get(args.gcp_answers, "badls_count", 0)..(MaxBadls + 1) :
            TierRank(ret.value) <= TierRank(TierAtBadls(b))

\* a tier that one more BADL raises
C5_Witness ==
    /\ Called("assign_assisted_living_tier")
    /\ Get(args.gcp_answers, "badls_count", 0) = 1
    /\ ret.value = "tier_1"
    /\ TierAtBadls(2) = "tier_2"

\* should_recommend_memory_care_instead_of_al on the normalized context
OverflowOnNormalized(gcp_outcome) ==
    LET context == prepare_gcp_context(gcp_outcome)
        f == context.flags
        a == context.answers
    IN  \/ /\ "memory_care_dx" \in f
           /\ \/ a.badls_count >= 2
              \/ "behavioral_concerns" \in f
              \/ "continuous_supervision" \in f
        \/ /\ "severe_cognitive_risk" \in f
           /\ \/ "behavioral_concerns" \in f
              \/ "continuous_supervision" \in f
              \/ a.safe_alone = "no"
        \/ a.behaviors_count >= 3

\* the high-acuity condition against the memory-care tier of the normalized
\* context
HighAcuityOnNormalized(gcp_outcome) ==
    LET context == prepare_gcp_context(gcp_outcome)
        f == context.flags
        a == context.answers
    IN  /\ assign_memory_care_tier(f, a) = "tier_4"
        /\ \/ "transfer_lift_required" \in f
           \/ a.incontinence = "complete"
           \/ ("continuous_supervision" \in f /\ a.behaviors_count >= 2)

\* C6: with no override and the recommendation assisted_living, the care type
\* leaves assisted_living for memory care exactly when
\* should_recommend_memory_care_instead_of_al holds on the normalized context.
C6_OverflowToMemoryCare ==
    (Called("determine_care_type")
     /\ Get(args.gcp_outcome, "recommendation", None) = "assisted_living")
        => /\ ret.status = "ok"
           /\ (ret.value \in { "memory_care", "memory_care_high_acuity" })
                <=> OverflowOnNormalized(args.gcp_outcome)

\* C7: from a recommendation of memory_care the care type becomes
\* memory_care_high_acuity exactly when the memory-care tier is tier_4 and a
\* skilled-nursing indicator holds.
C7_HighAcuityEscalation ==
    (Called("determine_care_type")
     /\ Get(args.gcp_outcome, "recommendation", None) = "memory_care")
        => /\ ret.status = "ok"
           /\ (ret.value = "memory_care_high_acuity")
                <=> HighAcuityOnNormalized(args.gcp_outcome)

\* C8: when the flags and answers trigger both escalation steps, the call
\* with recommendation assisted_living and no override returns the
\* total_monthly of the call with the override memory_care_high_acuity.
C8_EscalationIdempotence ==
    (Called("calculate_care_costs")
     /\ args.care_type = None
     /\ Get(args.gcp_outcome, "recommendation", None) = "assisted_living"
     /\ OverflowOnNormalized(args.gcp_outcome)
     /\ HighAcuityOnNormalized(args.gcp_outcome))
        => LET direct == calculate_care_costs(args.gcp_outcome,
                                              args.regional_multiplier,
                                              "memory_care_high_acuity")
           IN  /\ ret.status = "ok"
               /\ direct.status = "ok"
               /\ ret.value.total_monthly = direct.value.total_monthly

\* the percentage the specification states for a confidence label
StatedRangePct(confidence) ==
    CASE confidence = "high" -> Rat(7, 100)
      [] confidence = "medium" -> Rat(12, 100)
      [] confidence = "low" -> Rat(20, 100)

\* C9 as stated: low <= likely <= high, likely = total_monthly,
\* low = total_monthly x (1 - range_pct), high = total_monthly x (1 + range_pct),
\* and range_pct is 0.07 / 0.12 / 0.20 for confidence high / medium / low.
C9_RangeExact ==
    Called("calculate_cost_range") =>
        LET r == ret.value
        IN  /\ r.low <= r.likely /\ r.likely <= r.high
            /\ Cents(r.likely) = args.total
            /\ r.range_pct = StatedRangePct(r.confidence)
            /\ Cents(r.low) = RMul(args.total, RSub(One, r.range_pct))
            /\ Cents(r.high) = RMul(args.total, RAdd(One, r.range_pct))

\* C9, amended: for a total of whole cents that is not negative,
\* low <= likely <= high, likely = total_monthly, range_pct is
\* 0.07 / 0.12 / 0.20 for confidence high / medium / low, and low and high
\* are total_monthly x (1 - range_pct) and total_monthly x (1 + range_pct)
\* rounded to the cent: each within half a cent of the product.
C9_RangeRounded ==
    Called("calculate_cost_range") =>
        LET r == ret.value
            low == RMul(args.total, RSub(One, r.range_pct))
            high == RMul(args.total, RAdd(One, r.range_pct))
            half == Rat(1, 2)
        IN  /\ r.low <= r.likely /\ r.likely <= r.high
            /\ Cents(r.likely) = args.total
            /\ r.confidence \in { "high", "medium", "low" }
            /\ r.range_pct = StatedRangePct(r.confidence)
            /\ RLe(RSub(low, half), Cents(r.low))
            /\ RLe(Cents(r.low), RAdd(low, half))
            /\ RLe(RSub(high, half), Cents(r.high))
            /\ RLe(Cents(r.high), RAdd(high, half))

\* a medium-confidence range whose bounds are not whole cents before rounding
C9_Witness ==
    /\ Called("calculate_cost_range")
    /\ args.total = Cents(588880)
    /\ ret.value.confidence = "medium"
    /\ ret.value.range_pct = Rat(12, 100)
    /\ ret.value.low = 518214
    /\ ret.value.high = 659546

\* sum() over the "amount" of the breakdown entries, in cents
RECURSIVE SumBreakdown(_)
SumBreakdown(s) ==
    IF s = <<>> THEN 0 ELSE Head(s).amount + SumBreakdown(Tail(s))

\* C10: every path calculation, facility or hourly, yields a result whose
\* breakdown amounts sum to total_monthly within one cent.
C10_BreakdownReconciles ==
    (pc = "done" /\ fn \in FacilityPaths \cup HourlyPaths)
        => /\ ret.status = "ok"
           /\ Abs(SumBreakdown(ret.value.breakdown) - ret.value.total_monthly) <= 1

\* C11: calculate_care_costs asked for a care type outside the six recognized
\* ones, by the override or by the recommendation, fails with the
\* invalid-care-type error ("Unknown care type") and returns no result.
C11_UnknownCareTypeRejected ==
    (Called("calculate_care_costs") /\ RequestedCareType \notin CareTypes)
        => ret = Raise("ValueError", "Unknown care type")

\* the fields of a path result
PathFields == {
    "total_monthly", "base_cost", "regional_base", "tier", "tier_id",
    "tier_increment", "tier_description", "addons", "addon_total", "addon_cap",
    "breakdown" }

\* the range fields and the metadata the orchestrator adds
RangeFields == {
    "low_estimate", "likely_estimate", "high_estimate", "confidence",
    "range_pct", "range_explanation", "widening_factors" }

MetadataFields == {
    "care_type", "regional_multiplier", "model_version", "calculation_method" }

\* C12: the result of every care type carries the same field names: the path
\* fields (tier fields included, on the hourly and high-acuity paths too) from
\* each path calculation, and with them the range fields and the metadata
\* from calculate_care_costs.
C12_StableResultFields ==
    /\ (pc = "done" /\ fn \in FacilityPaths \cup HourlyPaths)
        => /\ ret.status = "ok"
           /\ PathFields \subseteq DOMAIN ret.value
    /\ (Called("calculate_care_costs") /\ RequestedCareType \in CareTypes)
        => /\ ret.status = "ok"
           /\ (PathFields \cup RangeFields \cup MetadataFields)
                \subseteq DOMAIN ret.value

\* the assessment of a call of calculate_care_costs has no flags and no ADL,
\* IADL, behaviour or chronic-condition entries
NoNeedsAssessment ==
    LET context == prepare_gcp_context(args.gcp_outcome)
    IN  /\ context["flags"] = {}
        /\ context["answers"]["badls_count"] = 0
        /\ context["answers"]["iadls_count"] = 0
        /\ context["answers"]["behaviors_count"] = 0
        /\ context["answers"]["chronic_conditions"] = <<>>

\* C13: an assisted-living calculation with no flags, no ADL / IADL /
\* behaviour entries, no chronic conditions and regional_multiplier 1.0 gives
\* tier_0, tier_increment 0, no add-ons, total_monthly 5900.00, confidence
\* high, range_pct 0.07, low 5487.00 and high 6313.00.
C13_AssistedLivingBaseline ==
    (Called("calculate_care_costs")
     /\ RequestedCareType = "assisted_living"
     /\ args.regional_multiplier = One
     /\ NoNeedsAssessment)
        => /\ ret.status = "ok"
           /\ ret.value["tier_id"] = "tier_0"
           /\ ret.value["tier_increment"] = 0
           /\ ret.value["addons"] = <<>>
           /\ ret.value["total_monthly"] = 590000
           /\ ret.value["confidence"] = "high"
           /\ ret.value["range_pct"] = Rat(7, 100)
           /\ ret.value["low_estimate"] = 548700
           /\ ret.value["high_estimate"] = 631300

\* C14: calculate_in_home_care takes hours_per_week from the answers (20 when
\* absent), hours_per_month = hours_per_week x 4.33 and total_monthly =
\* 34.00 x regional_multiplier x hours_per_month, each as reported (hours to a
\* tenth, money to the cent); 40 hours at multiplier 1.0 give 173.2 hours and
\* 5888.80.
C14_InHomeHours ==
    Called("calculate_in_home_care") =>
        LET h == Get(args.gcp_answers, "recommended_hours_per_week", 20)
            hours_per_month == RMul(Rat(h, 1), Rat(433, 100))
            total == RMul(RMul(Dollars(34), args.regional_multiplier),
                          hours_per_month)
        IN  /\ ret.status = "ok"
            /\ ret.value["hours_per_week"] = Rat(h, 1)
            /\ ret.value["hours_per_month"] = Round1(hours_per_month)
            /\ ret.value["total_monthly"] = Round2(total)
            /\ (h = 40 /\ args.regional_multiplier = One)
                => /\ ret.value["hours_per_month"] = 1732
                   /\ ret.value["total_monthly"] = 588880

\* C15: calculate_home_with_carry reports as hours_per_week half of the
\* recommended hours per week and as family_hours_per_week the rest, so the two
\* sum to the recommended hours (in tenths of an hour); 20 recommended hours
\* give 10 and 10.
C15_CarryHalvesHours ==
    Called("calculate_home_with_carry") =>
        LET h == Get(args.gcp_answers, "recommended_hours_per_week", 20)
        IN  /\ ret.status = "ok"
            /\ ret.value["hours_per_week"] = Round1(Rat(h, 2))
            /\ ret.value["hours_per_week"] + ret.value["family_hours_per_week"]
                 = 10 * h
            /\ (h = 20) => /\ ret.value["hours_per_week"] = 100
                           /\ ret.value["family_hours_per_week"] = 100

C17_MonetaryOutputsNonNegative ==
    /\ (pc = "done" /\ fn \in FacilityPaths \cup HourlyPaths)
        => /\ ret.status = "ok"
           /\ ret.value["total_monthly"] >= 0
           /\ \A i \in 1..Len(ret.value["breakdown"]) :
                ret.value["breakdown"][i].amount >= 0
    /\ (pc = "done" /\ fn \in FacilityPaths)
        => /\ ret.status = "ok"
           /\ ret.value["regional_base"] >= 0
           /\ ret.value["tier_increment"] >= 0
           /\ \A i \in 1..Len(ret.value["addons"]) :
                RLe(Zero, ret.value["addons"][i].amount)
           /\ ret.value["addon_total"] >= 0
           /\ ret.value["addon_cap"] >= 0
    /\ (Called("calculate_care_costs") /\ RequestedCareType \in CareTypes)
        => /\ ret.status = "ok"
           /\ ret.value["total_monthly"] >= 0
           /\ ret.value["low_estimate"] >= 0
           /\ ret.value["likely_estimate"] >= 0
           /\ ret.value["high_estimate"] >= 0

\* the cap of the called calculate_add_ons: min(800, regional_base x 0.15)
StatedMaxAddon ==
    RMin(Dollars(800), RMul(args.regional_base, Rat(15, 100)))

\* the add-ons the stated rules include for the called calculate_add_ons, in
\* the order fall, chronic, incontinence, each with its stated raw amount
StatedAddOns ==
    AppendIf("falls_multiple" \in args.gcp_flags,
             [label |-> "Fall Prevention Monitoring",
              amount |-> RMin(Dollars(400), RMul(StatedMaxAddon, Rat(50, 100)))])
    \o AppendIf(should_apply_chronic_addon(args.gcp_flags, args.gcp_answers),
             [label |-> "Chronic Condition Management",
              amount |-> RMin(Dollars(300), RMul(StatedMaxAddon, Rat(375, 1000)))])
    \o AppendIf("incontinence_management" \in args.gcp_flags
                /\ Get(args.gcp_answers, "badls_count", 0) < 2,
             [label |-> "Incontinence Care",
              amount |-> RMin(Dollars(250), RMul(StatedMaxAddon, Rat(3125, 10000)))])

\* C18: when the unscaled sum of the included add-ons exceeds max_addon, every
\* included add-on is returned with its amount multiplied by max_addon / sum
\* and capped = true, none dropped; otherwise every amount is unchanged and
\* capped = false.  The capped mark is the same on all add-ons of a result.
C18_UniformScaling ==
    Called("calculate_add_ons") =>
        LET add_ons == ret.value
            unscaled == SumAmounts(StatedAddOns)
            over == RLt(StatedMaxAddon, unscaled)
        IN  /\ ret.status = "ok"
            /\ Len(add_ons) = Len(StatedAddOns)
            /\ \A i \in 1..Len(add_ons) :
                /\ add_ons[i].label = StatedAddOns[i].label
                /\ add_ons[i].capped = over
                /\ add_ons[i].amount =
                     IF over
                     THEN RMul(StatedAddOns[i].amount,
                               RDiv(StatedMaxAddon, unscaled))
                     ELSE StatedAddOns[i].amount
            /\ \A i, j \in 1..Len(add_ons) : add_ons[i].capped = add_ons[j].capped

\* three add-ons of 354.00 + 265.50 + 221.25 against a cap of 708.00: all
\* three are returned, scaled by 16/19 and marked capped
C18_Witness ==
    /\ Called("calculate_add_ons")
    /\ StatedMaxAddon = Dollars(708)
    /\ SumAmounts(StatedAddOns) = Cents(84075)
    /\ Len(ret.value) = 3
    /\ \A i \in 1..3 : ret.value[i].capped
    /\ SumAmounts(ret.value) = Dollars(708)

StatedHighUncertainty ==
    LET f == args.gcp_flags
        a == args.gcp_answers
    IN  \/ ("behavioral_concerns" \in f /\ Get(a, "behaviors_count", 0) >= 3)
        \/ args.care_type = "memory_care_high_acuity"
        \/ ("transfer_assistance_2person" \in f /\ Get(a, "badls_count", 0) >= 3)
        \/ "transfer_lift_required" \in f
        \/ (args.care_type = "in_home_care" /\ "continuous_supervision" \in f)

\* the moderate-uncertainty conditions as stated
StatedModerateUncertainty ==
    LET f == args.gcp_flags
        a == args.gcp_answers
    IN  \/ (args.care_type \in { "memory_care", "memory_care_high_acuity" }
            /\ "behavioral_concerns" \in f)
        \/ ("falls_multiple" \in f /\ "high_mobility_dependence" \in f)
        \/ (Len(Get(a, "chronic_conditions", <<>>)) >= 3 /\ "falls_multiple" \in f)
        \/ "high_dependence" \in f
        \/ ("continuous_supervision" \in f /\ args.care_type # "in_home_care")

\* C21: calculate_cost_range gives confidence low iff a high-uncertainty
\* condition holds, otherwise medium iff a moderate-uncertainty condition
\* holds, otherwise high; when conditions of both kinds hold it gives low.
C21_ConfidenceCascade ==
    Called("calculate_cost_range") =>
        /\ ret.status = "ok"
        /\ ret.value.confidence =
             IF StatedHighUncertainty THEN "low"
             ELSE IF StatedModerateUncertainty THEN "medium"
             ELSE "high"
        /\ (StatedHighUncertainty /\ StatedModerateUncertainty)
             => ret.value.confidence = "low"

\* three behaviours with behavioral_concerns and high_dependence on an
\* assisted-living estimate: both kinds of condition hold, confidence is low
C21_Witness ==
    /\ Called("calculate_cost_range")
    /\ args.care_type = "assisted_living"
    /\ args.gcp_flags = { "behavioral_concerns", "high_dependence" }
    /\ Get(args.gcp_answers, "behaviors_count", 0) = 3
    /\ StatedModerateUncertainty
    /\ ret.value.confidence = "low"

\* the care type a facility path calculation prices
FacilityCareType ==
    CASE fn = "calculate_assisted_living" -> "assisted_living"
      [] fn = "calculate_memory_care" -> "memory_care"
      [] fn = "calculate_memory_care_high_acuity" -> "memory_care_high_acuity"

\* C22: every facility path calculation yields total_monthly = regional_base
\* + tier_increment + addon_total, where regional_base is the base cost of
\* the care type x regional_multiplier, the add-ons are those of
\* calculate_add_ons against regional_base, and tier_increment is the
\* assigned tier's increment x regional_multiplier for assisted_living and
\* memory_care and 0, under the tier label High Acuity, for
\* memory_care_high_acuity.
C22_FacilityTotal ==
    (pc = "done" /\ fn \in FacilityPaths) =>
        LET f == args.gcp_flags
            a == args.gcp_answers
            m == args.regional_multiplier
            regional_base == RMul(get_base_cost(FacilityCareType, "monthly").value, m)
            tier_id == IF fn = "calculate_assisted_living"
                       THEN assign_assisted_living_tier(f, a)
                       ELSE assign_memory_care_tier(f, a)
            tier_increment ==
                IF fn = "calculate_memory_care_high_acuity" THEN Zero
                ELSE get_tier_increment(FacilityCareType, tier_id, m).value
            addon_total ==
                SumAmounts(calculate_add_ons(FacilityCareType, f, a, regional_base))
        IN  /\ ret.status = "ok"
            /\ ret.value["regional_base"] = Round2(regional_base)
            /\ ret.value["tier_increment"] = Round2(tier_increment)
            /\ ret.value["addon_total"] = Round2(addon_total)
            /\ ret.value["total_monthly"] =
                 Round2(RAdd(RAdd(regional_base, tier_increment), addon_total))
            /\ (fn = "calculate_memory_care_high_acuity")
                 => ret.value["tier"] = "High Acuity"
            /\ (fn # "calculate_memory_care_high_acuity")
                 => ret.value["tier_id"] = tier_id

\* a raw answer as the normalizer is to leave it: the entries of a list other
\* than the sentinel, in their order; nothing for a missing or non-list value
StatedFiltered(answers, key) ==
    IF key \in DOMAIN answers /\ answers[key].islist
    THEN SelectSeq(answers[key].items, LAMBDA x : x # "none")
    ELSE <<>>

\* C23: prepare_gcp_context returns, whatever keys are missing, the flags as
\* the set of the distinct input flags, the badls, iadls, behaviors and
\* chronic_conditions lists without their "none" entries and in their order
\* (empty for a missing or non-list value), and badls_count, iadls_count and
\* behaviors_count as the lengths of the filtered lists.
C23_NormalizerContract ==
    Called("prepare_gcp_context") =>
        LET o == args.gcp_outcome
            raw == IF "answers" \in DOMAIN o THEN o["answers"] ELSE EmptyDict
            flags == IF "flags" \in DOMAIN o
                     THEN { o["flags"][i] : i \in 1..Len(o["flags"]) }
                     ELSE {}
            a == ret.value["answers"]
        IN  /\ ret.status = "ok"
            /\ ret.value["flags"] = flags
            /\ a["badls_list"] = StatedFiltered(raw, "badls")
            /\ a["iadls_list"] = StatedFiltered(raw, "iadls")
            /\ a["behaviors_list"] = StatedFiltered(raw, "behaviors")
            /\ a["chronic_conditions"] = StatedFiltered(raw, "chronic_conditions")
            /\ a["badls_count"] = Len(StatedFiltered(raw, "badls"))
            /\ a["iadls_count"] = Len(StatedFiltered(raw, "iadls"))
            /\ a["behaviors_count"] = Len(StatedFiltered(raw, "behaviors"))

\* a flag list with a repeated flag and lists that hold the sentinel: the
\* flag is counted once, the sentinel not at all
C23_Witness ==
    /\ Called("prepare_gcp_context")
    /\ "flags" \in DOMAIN args.gcp_outcome
    /\ Len(args.gcp_outcome["flags"]) = 3
    /\ Cardinality(ret.value["flags"]) = 2
    /\ "answers" \in DOMAIN args.gcp_outcome
    /\ "badls" \in DOMAIN args.gcp_outcome["answers"]
    /\ Len(args.gcp_outcome["answers"]["badls"].items) = 3
    /\ ret.value["answers"]["badls_count"] = 2
    /\ ret.value["answers"]["chronic_conditions"] = <<"copd", "stroke">>
    /\ ret.value["answers"]["iadls_count"] = 1

\* the factor strings of the called calculate_cost_range
Factors == { ret.value.widening_factors[i] :
               i \in 1..Len(ret.value.widening_factors) }

\* C24: widening_factors holds the strings of the conditions that fired for
\* the chosen confidence: a string is in the list if and only if the
\* condition it describes held, and low, likely, high and range_pct are those
\* of the total and the confidence alone.
C24_FactorsMatchConditions ==
    Called("calculate_cost_range") =>
        LET f == args.gcp_flags
            behaviors_count == Get(args.gcp_answers, "behaviors_count", 0)
            badls_count == Get(args.gcp_answers, "badls_count", 0)
            chronic_count == Len(Get(args.gcp_answers, "chronic_conditions", <<>>))
            r == ret.value
        IN  /\ ret.status = "ok"
            /\ r.range_pct = StatedRangePct(r.confidence)
            /\ r.low = Round2(RMul(args.total, RSub(One, r.range_pct)))
            /\ r.likely = Round2(args.total)
            /\ r.high = Round2(RMul(args.total, RAdd(One, r.range_pct)))
            /\ (r.confidence = "high")
                 => r.widening_factors = <<"Care needs are stable and predictable">>
            /\ (r.confidence = "low") =>
                /\ ("Significant behavioral needs ({behaviors_count} behaviors) require intensive support"
                        \in Factors)
                     <=> ("behavioral_concerns" \in f /\ behaviors_count >= 3)
                /\ ("High-acuity memory care has wide market variation" \in Factors)
                     <=> (args.care_type = "memory_care_high_acuity")
                /\ ("2-person transfers or mechanical lifts require specialized staffing"
                        \in Factors)
                     <=> \/ ("transfer_assistance_2person" \in f /\ badls_count >= 3)
                         \/ "transfer_lift_required" \in f
                /\ ("24/7 in-home care has wide market variation" \in Factors)
                     <=> (args.care_type = "in_home_care"
                          /\ "continuous_supervision" \in f)
            /\ (r.confidence = "medium") =>
                /\ ("Behavioral needs may vary and require flexible support" \in Factors)
                     <=> (args.care_type \in { "memory_care", "memory_care_high_acuity" }
                          /\ "behavioral_concerns" \in f)
                /\ ("Fall risk requires enhanced monitoring" \in Factors)
                     <=> ("falls_multiple" \in f
                          /\ ("high_mobility_dependence" \in f \/ chronic_count >= 3))
                /\ ("{chronic_count} chronic conditions may require additional oversight"
                        \in Factors)
                     <=> (chronic_count >= 3 /\ "falls_multiple" \in f)
                /\ ("High level of care dependency varies by provider capability"
                        \in Factors)
                     <=> "high_dependence" \in f
                /\ ("Continuous supervision requirements vary by community" \in Factors)
                     <=> ("continuous_supervision" \in f
                          /\ args.care_type # "in_home_care")

\* C25: a care type given as the override is the effective care type: the
\* result is priced for it and reports it as care_type whatever the flags,
\* the answers and the recommendation would escalate to; the recommendation
\* decides only when no override is given.
C25_OverrideIsEffective ==
    /\ (Called("calculate_care_costs") /\ args.care_type \in CareTypes)
        => /\ ret.status = "ok"
           /\ ret.value["care_type"] = args.care_type
    /\ (Called("calculate_care_costs")
        /\ args.care_type = None
        /\ Get(args.gcp_outcome, "recommendation", None) = "in_home_care")
        => /\ ret.status = "ok"
           /\ ret.value["care_type"] = "in_home_care"

\* C26: for a regional_base above 0, calculate_add_ons marks its add-ons
\* capped exactly when it returns all three: one or two add-ons sum to no more
\* than max_addon and are not capped, and three add-ons sum to max_addon.
C26_CappedIffAllThree ==
    (Called("calculate_add_ons") /\ RLt(Zero, args.regional_base)) =>
        LET add_ons == ret.value
        IN  /\ ret.status = "ok"
            /\ Len(add_ons) <= 3
            /\ \A i \in 1..Len(add_ons) : add_ons[i].capped <=> (Len(add_ons) = 3)
            /\ (Len(add_ons) \in { 1, 2 })
                 => RLe(SumAmounts(add_ons), StatedMaxAddon)
            /\ (Len(add_ons) = 3) => SumAmounts(add_ons) = StatedMaxAddon

\* three add-ons against the absolute cap of 800.00, scaled by 16/19
C26_Witness ==
    /\ Called("calculate_add_ons")
    /\ StatedMaxAddon = Dollars(800)
    /\ Len(ret.value) = 3
    /\ ret.value[3].capped
    /\ SumAmounts(ret.value) = Dollars(800)
    /\ ret.value[1].amount = Rat(640000, 19)

\* the tier the called tier function gives when flag x is added to the flags
TierWithFlag(x) ==
    IF fn = "assign_assisted_living_tier"
    THEN assign_assisted_living_tier(args.gcp_flags \cup { x }, args.gcp_answers)
    ELSE assign_memory_care_tier(args.gcp_flags \cup { x }, args.gcp_answers)

\* C27: with the answers fixed, adding a flag to the flag set never gives a
\* lower assisted-living or memory-care tier.
C27_TierMonotoneInFlags ==
    (pc = "done" /\ fn \in { "assign_assisted_living_tier",
                             "assign_memory_care_tier" }) =>
        \A x \in ALTierFlags \cup MCTierFlags \cup { "falls_risk" } :
            TierRank(ret.value) <= TierRank(TierWithFlag(x))

\* a memory-care tier that one more flag raises, and a flag of a lower tier
\* that leaves it alone
C27_Witness ==
    /\ Called("assign_memory_care_tier")
    /\ args.gcp_flags = { "incontinence_management" }
    /\ ret.value = "tier_2"
    /\ TierWithFlag("transfer_lift_required") = "tier_4"
    /\ TierWithFlag("moderate_mobility") = "tier_2"

\* the outcome of the called assisted-living or memory-care path when
\* badls_count is replaced by b
PathAtBadls(b) ==
    LET answers == ("badls_count" :> b) @@ args.gcp_answers
    IN  IF fn = "calculate_assisted_living"
        THEN calculate_assisted_living(args.gcp_flags, answers, args.regional_multiplier)
        ELSE calculate_memory_care(args.gcp_flags, answers, args.regional_multiplier)

\* C28: for assisted_living and memory_care, with the flags, the other
\* answers and the regional multiplier fixed, the path calculation returns a
\* total_monthly, and a larger badls_count never returns a smaller one.
C28_TotalMonotoneInBadls ==
    (pc = "done" /\ fn \in { "calculate_assisted_living",
                             "calculate_memory_care" }) =>
        /\ ret.status = "ok"
        /\ \A b \in args.gcp_answers["badls_count"]..(MaxBadls + 1) :
            /\ PathAtBadls(b).status = "ok"
            /\ ret.value["total_monthly"] <= PathAtBadls(b).value["total_monthly"]

\* C29: every range computed for care type memory_care_high_acuity has
\* confidence low, range_pct 0.20 and a non-empty widening_factors list,
\* whatever the flags and answers.
C29_HighAcuityAlwaysWide ==
    (Called("calculate_cost_range") /\ args.care_type = "memory_care_high_acuity") =>
        /\ ret.status = "ok"
        /\ ret.value.confidence = "low"
        /\ ret.value.range_pct = Rat(20, 100)
        /\ Len(ret.value.widening_factors) >= 1

\* a high-acuity estimate with no flag and no need recorded: the care type
\* alone gives the wide range and its one factor
C29_Witness ==
    /\ Called("calculate_cost_range")
    /\ args.care_type = "memory_care_high_acuity"
    /\ args.gcp_flags = {}
    /\ Get(args.gcp_answers, "behaviors_count", 0) = 0
    /\ Get(args.gcp_answers, "badls_count", 0) = 0
    /\ ret.value.confidence = "low"
    /\ ret.value.range_pct = Rat(20, 100)
    /\ ret.value.widening_factors = << "High-acuity memory care has wide market variation" >>

\* C30: determine_care_type returns a care type that is never lower in the
\* chain assisted_living -> memory_care -> memory_care_high_acuity than the
\* recommendation: one of the three from assisted_living (an absent
\* recommendation counts as assisted_living), memory_care or
\* memory_care_high_acuity from memory_care, and every other recommendation
\* itself.
C30_NeverDownTheChain ==
    Called("determine_care_type") =>
        LET recommendation == Get(args.gcp_outcome, "recommendation", "assisted_living")
        IN  /\ ret.status = "ok"
            /\ ret.value \in
                 CASE recommendation = "assisted_living" ->
                        { "assisted_living", "memory_care", "memory_care_high_acuity" }
                   [] recommendation = "memory_care" ->
                        { "memory_care", "memory_care_high_acuity" }
                   [] OTHER -> { recommendation }

====
